---- MODULE Spec2Model ----
(***************************************************************************)
(* Model of the HR dashboard pages Effectif, Departeurs and Departures:    *)
(* the fetch effect of each page, the row decoder it runs on the JSON      *)
(* body, and the values derived from the record set (filtered set,         *)
(* category keys, chart series, grouped summaries).                        *)
(*                                                                         *)
(* JavaScript strings are sequences of one-character strings.  A JSON cell *)
(* is a record [t, n, s]: t = "null" (null, undefined, a missing index),   *)
(* t = "num" (the number n) or t = "str" (the string s).                   *)
(***************************************************************************)
EXTENDS Integers, Sequences, FiniteSets, TLC

VARIABLES page, pc, data, loading, error, retryKey,
          filterDepartment, filterContrado, rawData,
          started, ended, outcome,
          spc, requests, responses, upstream

\* the history of the fetch attempts of the page: how many were started, how
\* many have ended, and how the last one ended ("none", "ok", "failed")
attempts == <<started, ended, outcome>>

\* the proxy handler of the server behind the page's endpoint: the position of
\* the handler of the last request, the number of requests received, the
\* responses it sent to that request, and what the upstream answered to it
server == <<spc, requests, responses, upstream>>

vars == <<page, pc, data, loading, error, retryKey,
          filterDepartment, filterContrado, rawData, started, ended, outcome,
          spc, requests, responses, upstream>>

(***************************************************************************)
(* Bounds of the model.                                                    *)
(***************************************************************************)
MaxRows == 3
MaxRetry == 1

(***************************************************************************)
(* Cells and JavaScript value semantics.                                   *)
(***************************************************************************)
Null == [t |-> "null", n |-> 0, s |-> <<>>]
Num(k) == [t |-> "num", n |-> k, s |-> <<>>]
Str(x) == [t |-> "str", n |-> 0, s |-> x]

Range(f) == {f[i] : i \in DOMAIN f}

Digits == <<"0", "1", "2", "3", "4", "5", "6", "7", "8", "9">>

DigitValues == [c \in Range(Digits) |-> (CHOOSE i \in 1..10 : Digits[i] = c) - 1]

IsDigit(c) == c \in DOMAIN DigitValues

DigitVal(c) == DigitValues[c]

IsWs(c) == c = " "

\* String.prototype.trim
RECURSIVE TrimLeft(_)
TrimLeft(s) ==
  IF s # <<>> /\ IsWs(Head(s)) THEN TrimLeft(Tail(s)) ELSE s

RECURSIVE TrimRight(_)
TrimRight(s) ==
  IF s # <<>> /\ IsWs(s[Len(s)]) THEN TrimRight(SubSeq(s, 1, Len(s) - 1)) ELSE s

Trim(s) == TrimRight(TrimLeft(s))

\* Number.prototype.toString of an integer
RECURSIVE NatToStr(_)
NatToStr(k) ==
  IF k < 10 THEN <<Digits[k + 1]>>
  ELSE NatToStr(k \div 10) \o <<Digits[(k % 10) + 1]>>

NumToStr(k) == IF k < 0 THEN <<"-">> \o NatToStr(0 - k) ELSE NatToStr(k)

\* String(x) and x.toString() of a cell (String(null) is "null")
JsString(c) ==
  CASE c.t = "str" -> c.s
    [] c.t = "num" -> NumToStr(c.n)
    [] OTHER -> <<"n", "u", "l", "l">>

\* the truthiness of a cell: null, undefined, "" and 0 are falsy
Truthy(c) ==
  CASE c.t = "str" -> c.s # <<>>
    [] c.t = "num" -> c.n # 0
    [] OTHER -> FALSE

\* c || d
OrElse(c, d) == IF Truthy(c) THEN c ELSE d

\* row[i] with the 0-based index of the source; a missing index is undefined
At(row, i) == IF i + 1 <= Len(row) THEN row[i + 1] ELSE Null

\* the value of the leading digits of s, acc being the value read so far
RECURSIVE DigitsValue(_, _)
DigitsValue(s, acc) ==
  IF s # <<>> /\ IsDigit(Head(s))
  THEN DigitsValue(Tail(s), acc * 10 + DigitVal(Head(s)))
  ELSE acc

\* parseInt of a string: leading whitespace, an optional sign, then digits;
\* NaN when no digit follows
ParseInt(str) ==
  LET s == TrimLeft(str)
      neg == s # <<>> /\ Head(s) = "-"
      body == IF s # <<>> /\ Head(s) \in {"-", "+"} THEN Tail(s) ELSE s
  IN IF body # <<>> /\ IsDigit(Head(body))
     THEN [nan |-> FALSE,
           v |-> IF neg THEN 0 - DigitsValue(body, 0) ELSE DigitsValue(body, 0)]
     ELSE [nan |-> TRUE, v |-> 0]

\* Number(x) || 0 in place of parseInt: a string with anything after the
\* digits gives 0
ParseIntOrZero_Strict(c) ==
  LET p == ParseInt(JsString(c))
  IN IF p.nan \/ NumToStr(p.v) # Trim(JsString(c)) THEN 0 ELSE p.v

\* parseInt(x) || 0
ParseIntOrZero(c) ==
  LET p == ParseInt(JsString(c)) IN IF p.nan THEN 0 ELSE p.v

(***************************************************************************)
(* The row decoders.  A raw row is [arr, cells]: arr says whether the      *)
(* element is an array, cells are its elements.                            *)
(***************************************************************************)
MinColsEffectif == 4
MinColsDeparteurs == 5

Actif == <<"A", "c", "t", "i", "f">>

\* (row[i] || dflt).toString().trim()
TrimmedField(row, i, dflt) == Trim(JsString(OrElse(At(row, i), Str(dflt))))

RowRejectedEffectif(row) == ~row.arr \/ Len(row.cells) < MinColsEffectif

DecodeEffectifRow(row) ==
  [id |-> TrimmedField(row.cells, 0, <<>>),
   name |-> TrimmedField(row.cells, 1, <<>>),
   department |-> TrimmedField(row.cells, 11, <<>>),
   position |-> TrimmedField(row.cells, 3, <<>>),
   status |-> TrimmedField(row.cells, 13, Actif)]

KeepEffectif(r) == r.id # <<>> /\ r.name # <<>>

RowRejectedDeparteurs(row) == ~row.arr \/ Len(row.cells) < MinColsDeparteurs

DecodeDeparteursRow(row) ==
  [qz |-> TrimmedField(row.cells, 0, <<>>),
   month |-> OrElse(At(row.cells, 1), Str(<<>>)),
   sexo |-> TrimmedField(row.cells, 2, <<>>),
   department |-> TrimmedField(row.cells, 4, <<>>),
   contado |-> TrimmedField(row.cells, 3, <<>>),
   nbBaja |-> ParseIntOrZero(At(row.cells, 5))]

KeepDeparteurs(r) == r.qz # <<>> /\ Truthy(r.month) /\ r.department # <<>>

\* Departures: the same row format, decoded by the page's own loop
MinColsDepartures == 5

RowRejectedDepartures(row) == ~row.arr \/ Len(row.cells) < MinColsDepartures

\* the row format of five columns: department at 3 and nbBaja at 4
DecodeDeparturesRow_FiveColumns(row) ==
  [qz |-> TrimmedField(row.cells, 0, <<>>),
   month |-> OrElse(At(row.cells, 1), Str(<<>>)),
   sexo |-> TrimmedField(row.cells, 2, <<>>),
   department |-> TrimmedField(row.cells, 3, <<>>),
   contado |-> <<>>,
   nbBaja |-> ParseIntOrZero(At(row.cells, 4))]

DecodeDeparturesRow(row) ==
  [qz |-> TrimmedField(row.cells, 0, <<>>),
   month |-> OrElse(At(row.cells, 1), Str(<<>>)),
   sexo |-> TrimmedField(row.cells, 2, <<>>),
   department |-> TrimmedField(row.cells, 4, <<>>),
   contado |-> TrimmedField(row.cells, 3, <<>>),
   nbBaja |-> ParseIntOrZero(At(row.cells, 5))]

KeepDepartures(r) == r.qz # <<>> /\ Truthy(r.month) /\ r.department # <<>>

\* the loop over rawData[1..]: processedData after the rows of `rows` from
\* position i on (1-based; position 1 is the header)
RECURSIVE ProcessRows(_, _, _)
ProcessRows(pg, rows, i) ==
  IF i > Len(rows) THEN <<>>
  ELSE LET row == rows[i]
           rest == ProcessRows(pg, rows, i + 1)
       IN IF pg = "Effectif"
          THEN IF RowRejectedEffectif(row) THEN rest
               ELSE IF KeepEffectif(DecodeEffectifRow(row))
                    THEN <<DecodeEffectifRow(row)>> \o rest
                    ELSE rest
          ELSE IF pg = "Departures"
          THEN IF RowRejectedDepartures(row) THEN rest
               ELSE IF KeepDepartures(DecodeDeparturesRow(row))
                    THEN <<DecodeDeparturesRow(row)>> \o rest
                    ELSE rest
          ELSE IF RowRejectedDeparteurs(row) THEN rest
               ELSE IF KeepDeparteurs(DecodeDeparteursRow(row))
                    THEN <<DecodeDeparteursRow(row)>> \o rest
                    ELSE rest

\* the record set a page sets from a parsed body [isArray, rows]:
\* setData(processedData) for an array of more than one row, else setData([])
ProcessBody(pg, body) ==
  IF body.isArray /\ Len(body.rows) > 1
  THEN ProcessRows(pg, body.rows, 2)
  ELSE <<>>

(***************************************************************************)
(* The bodies a fetch can deliver.  Rows are drawn from a fixed universe   *)
(* per page that holds well-formed rows, rows with padded, numeric, empty  *)
(* and missing cells, short rows and an element that is no array.          *)
(***************************************************************************)
Row(cells) == [arr |-> TRUE, cells |-> cells]
NotARow == [arr |-> FALSE, cells |-> <<>>]

HeaderRow == Row(<<Str(<<"h">>)>>)

LabelKey == <<"m", "o", "n", "t", "h">>

\* the seven cells at indices 4..10, which no decoder reads
Gap == <<Null, Null, Null, Null, Null, Null, Null>>

EffRow(id, name, position, dept, status) ==
  Row(<<id, name, Null, position>> \o Gap \o <<dept, Null, status>>)

EffectifRows ==
  { EffRow(Str(<<"1">>), Str(<<"A", "n">>), Str(<<"C">>), Str(<<"S">>), Str(<<"A">>)),
    EffRow(Str(<<" ", "2", " ">>), Str(<<" ", "B", "o">>), Str(<<"C", " ">>),
           Str(<<" ", "T", " ">>), Null),
    EffRow(Num(3), Str(<<"C", "y">>), Null, Str(<<"T">>), Str(<<" ", "B">>)),
    EffRow(Str(<<"8">>), Str(<<"G", "i">>), Str(<<"C">>), Null, Str(<<" ">>)),
    Row(<<Str(<<"4">>), Str(<<"D", "i">>), Null, Str(<<"C">>)>>),
    Row(<<Str(<<"5">>), Str(<<"E", "d">>), Null>>),
    EffRow(Num(0), Str(<<"F", "u">>), Str(<<"C">>), Str(<<"S">>), Str(<<"A">>)),
    EffRow(Str(<<"7">>), Str(<<" ">>), Str(<<"C">>), Str(<<"S">>), Str(<<"A">>)),
    NotARow }

DepRow(qz, month, sexo, contado, dept, nb) ==
  Row(<<qz, month, sexo, contado, dept, nb>>)

DeparteursRows ==
  { DepRow(Str(<<"A">>), Num(1), Str(<<"M">>), Str(<<"X">>), Str(<<"D">>), Num(2)),
    DepRow(Str(<<" ", "B", " ">>), Str(<<"1">>), Str(<<"F", " ">>), Str(<<" ", "Y">>),
           Str(<<"E", " ">>), Str(<<"3">>)),
    DepRow(Str(LabelKey), Str(<<"2">>), Str(<<"M">>), Str(<<"X">>), Str(<<"D">>), Num(1)),
    DepRow(Str(<<"A">>), Str(<<" ">>), Str(<<"F">>), Str(<<"X">>), Str(<<"E">>), Num(4)),
    DepRow(Str(<<"B">>), Str(<<"1", "3">>), Str(<<"M">>), Str(<<"Y">>), Str(<<"D">>),
           Str(<<"5", "x">>)),
    DepRow(Str(<<"A">>), Str(<<" ", "2">>), Null, Str(<<"Y">>), Str(<<"E">>), Str(<<"x">>)),
    Row(<<Str(<<"B">>), Num(2), Str(<<"F">>), Null, Str(<<"D">>)>>),
    Row(<<Str(<<"B">>), Str(<<"2">>), Str(<<"M">>), Str(<<"X">>)>>),
    NotARow }

\* complete departure rows for the chart: months as numbers and as strings,
\* blank, "0" and 13, and a qz that is the name of the label field
ChartRows ==
  { DepRow(Str(<<"A">>), Num(1), Str(<<"M">>), Str(<<"X">>), Str(<<"D">>), Num(2)),
    DepRow(Str(<<"B">>), Str(<<"1">>), Str(<<"F">>), Str(<<"Y">>), Str(<<"E">>), Num(3)),
    DepRow(Str(LabelKey), Str(<<"2">>), Str(<<"M">>), Str(<<"X">>), Str(<<"D">>), Num(1)),
    DepRow(Str(<<"A">>), Str(<<" ">>), Str(<<"F">>), Str(<<"X">>), Str(<<"E">>), Num(4)),
    DepRow(Str(<<"B">>), Str(<<"1", "3">>), Str(<<"M">>), Str(<<"Y">>), Str(<<"D">>), Num(5)),
    DepRow(Str(<<"A">>), Str(<<"0">>), Str(<<"F">>), Str(<<"Y">>), Str(<<"D">>), Num(6)),
    DepRow(Str(<<"B">>), Str(<<" ", "2">>), Str(<<"M">>), Str(<<"X">>), Str(<<"E">>), Num(0)) }

\* departure rows for the sorted table and its grouping: months that stand
\* for the same number under different texts ("2", "02", 2), a month that
\* is no number, a month of two digits, a lower-case qz, two rows of one
\* group, a negative count
TableRows ==
  { DepRow(Str(<<"A">>), Str(<<"2">>), Str(<<"M">>), Str(<<"X">>), Str(<<"D">>), Num(3)),
    DepRow(Str(<<"A">>), Str(<<"2">>), Str(<<"M">>), Str(<<"Y">>), Str(<<"E">>), Num(2)),
    DepRow(Str(<<"B">>), Str(<<"0", "2">>), Str(<<"M">>), Str(<<"X">>), Str(<<"D">>),
           Str(<<"-", "3">>)),
    DepRow(Str(<<"C">>), Num(2), Str(<<"F">>), Str(<<"X">>), Str(<<"E">>), Num(1)),
    DepRow(Str(<<"a">>), Str(<<"1", "3">>), Str(<<"F">>), Str(<<"Y">>), Str(<<"D">>), Num(2)),
    DepRow(Str(<<"B">>), Str(<<"x">>), Str(<<"M">>), Str(<<"X">>), Str(<<"E">>), Num(4)) }

RowsOf(pg) == IF pg = "Effectif" THEN EffectifRows ELSE DeparteursRows

\* the sequences of at most k rows of the set `rows`
RECURSIVE RowSeqs(_, _)
RowSeqs(rows, k) ==
  IF k = 0 THEN {<<>>}
  ELSE LET shorter == RowSeqs(rows, k - 1)
       IN shorter \cup {Append(q, r) : q \in {x \in shorter : Len(x) = k - 1},
                                        r \in rows}

NotAnArray == [isArray |-> FALSE, rows |-> <<>>]
NoBody == [isArray |-> FALSE, rows |-> <<HeaderRow>>]

\* a header followed by at most MaxRows rows of the set `rows`
TablesOf(rows) ==
  {[isArray |-> TRUE, rows |-> <<HeaderRow>> \o q] : q \in RowSeqs(rows, MaxRows)}

\* a JSON object, the empty array, or a table of the rows of the page
Bodies(pg) ==
  {NotAnArray, [isArray |-> TRUE, rows |-> <<>>]} \cup TablesOf(RowsOf(pg))

ChartBodies == TablesOf(ChartRows)

TableBodies == TablesOf(TableRows)

(***************************************************************************)
(* The page component: its state and the steps of its fetch effect.        *)
(***************************************************************************)
Pages == {"Effectif", "Departeurs", "Departures"}

\* the upstream has not answered the request
NoUpstream == [outcome |-> "none", body |-> NotAnArray]

NoError == "null"
NoFilter == [set |-> FALSE, v |-> <<>>]
Filter(x) == [set |-> TRUE, v |-> x]

\* useState initial values; the effect of the first render is pending
Init ==
  /\ page \in Pages
  /\ pc = "effect"
  /\ data = <<>>
  /\ loading = TRUE
  /\ error = NoError
  /\ retryKey = 0
  /\ filterDepartment = NoFilter
  /\ filterContrado = NoFilter
  /\ rawData = NoBody
  /\ started = 0
  /\ ended = 0
  /\ outcome = "none"
  /\ spc = "idle"
  /\ requests = 0
  /\ responses = <<>>
  /\ upstream = NoUpstream

\* the effect runs without setError(null)
StartFetch_KeepError ==
  /\ pc = "effect"
  /\ loading' = TRUE
  /\ pc' = "awaitFetch"
  /\ started' = started + 1
  /\ UNCHANGED <<page, data, error, retryKey, filterDepartment, filterContrado, rawData,
                 ended, outcome>>
  /\ UNCHANGED server

\* the effect runs: setLoading(true), setError(null), fetch() is issued
StartFetch ==
  /\ pc = "effect"
  /\ loading' = TRUE
  /\ error' = NoError
  /\ pc' = "awaitFetch"
  /\ started' = started + 1
  /\ UNCHANGED <<page, data, retryKey, filterDepartment, filterContrado, rawData,
                 ended, outcome>>
  /\ UNCHANGED server

\* catch (err) { console.error(err) } finally { setLoading(false) }
Catch_LogOnly(message) ==
  /\ loading' = FALSE
  /\ pc' = "idle"
  /\ UNCHANGED <<page, error, data, retryKey, filterDepartment, filterContrado, rawData>>
  /\ UNCHANGED server

\* catch (err) { setError(message); setData([]) } finally { setLoading(false) }
Catch(message) ==
  /\ error' = message
  /\ data' = <<>>
  /\ loading' = FALSE
  /\ pc' = "idle"
  /\ UNCHANGED <<page, retryKey, filterDepartment, filterContrado, rawData>>
  /\ UNCHANGED server

\* the attempt in flight ends as a failure
AttemptFails ==
  /\ ended' = ended + 1
  /\ outcome' = "failed"
  /\ UNCHANGED started

\* fetch() resolves with a 2xx response: the timeout is cleared, the body is read
FetchOk ==
  /\ pc = "awaitFetch"
  /\ pc' = "awaitJson"
  /\ UNCHANGED <<page, data, loading, error, retryKey,
                 filterDepartment, filterContrado, rawData>>
  /\ UNCHANGED attempts
  /\ UNCHANGED server

\* fetch() resolves with a non-2xx response: the effect throws
FetchNotOk ==
  /\ pc = "awaitFetch"
  /\ Catch("Failed to fetch data: status")
  /\ AttemptFails

\* fetch() rejects: the network failed
FetchNetworkError ==
  /\ pc = "awaitFetch"
  /\ Catch("Failed to fetch")
  /\ AttemptFails

\* the 60 s timer fires and the message is shown, but fetch() is not aborted
FetchTimeout_NoAbort ==
  /\ pc = "awaitFetch"
  /\ error' = "The operation was aborted"
  /\ data' = <<>>
  /\ loading' = FALSE
  /\ UNCHANGED <<page, pc, retryKey, filterDepartment, filterContrado, rawData>>
  /\ UNCHANGED attempts
  /\ UNCHANGED server

\* the 60 s timer fires while fetch() is pending: controller.abort() makes
\* fetch() reject.  Once fetch() has resolved the timer is cleared.
FetchTimeout ==
  /\ pc = "awaitFetch"
  /\ Catch("The operation was aborted")
  /\ AttemptFails

\* response.json() resolves; a body that is no table of rows is thrown as an
\* error
JsonResolves_TableOrError(bodies) ==
  /\ pc = "awaitJson"
  /\ \E body \in bodies :
       /\ rawData' = body
       /\ IF body.isArray /\ Len(body.rows) > 1
          THEN data' = ProcessRows(page, body.rows, 2) /\ error' = error
          ELSE data' = <<>> /\ error' = "No data"
  /\ loading' = FALSE
  /\ pc' = "idle"
  /\ ended' = ended + 1
  /\ outcome' = "ok"
  /\ UNCHANGED <<page, retryKey, filterDepartment, filterContrado, started>>
  /\ UNCHANGED server

\* response.json() resolves with one of `bodies`: the rows are decoded and the
\* record set replaced
JsonResolves(bodies) ==
  /\ pc = "awaitJson"
  /\ \E body \in bodies :
       /\ rawData' = body
       /\ data' = ProcessBody(page, body)
  /\ loading' = FALSE
  /\ pc' = "idle"
  /\ ended' = ended + 1
  /\ outcome' = "ok"
  /\ UNCHANGED <<page, error, retryKey, filterDepartment, filterContrado, started>>
  /\ UNCHANGED server

JsonOk == JsonResolves(Bodies(page))

\* response.json() resolves with a table of complete departure rows
JsonOkChart == JsonResolves(ChartBodies)

\* response.json() resolves with a table of departure rows for the sorted table
JsonOkTable == JsonResolves(TableBodies)

\* response.json() rejects: the body is no JSON
JsonError ==
  /\ pc = "awaitJson"
  /\ Catch("Unexpected token")
  /\ AttemptFails

\* the retry button rendered in every state, next to the delivered records too
RetryShown_Always == TRUE

\* {error && <Button>}: the retry button is rendered while error is set
RetryShown == error # NoError

\* a click on the retry button: setRetryKey(k => k + 1), which schedules the
\* effect again.  The effect of an earlier click runs before the next click
\* is handled.
Retry ==
  /\ RetryShown
  /\ pc # "effect"
  /\ retryKey < MaxRetry
  /\ retryKey' = retryKey + 1
  /\ pc' = "effect"
  /\ UNCHANGED <<page, data, loading, error, filterDepartment, filterContrado, rawData>>
  /\ UNCHANGED attempts
  /\ UNCHANGED server

(***************************************************************************)
(* The proxy handler of the server (handleDeparteursData; the handler      *)
(* handleRecruitmentData has the same steps), and the page as its client.  *)
(* A response is [status, body, message]: the JSON body sent, and the      *)
(* message of an error body.                                               *)
(***************************************************************************)
ClientVars == <<page, pc, data, loading, error, retryKey,
                filterDepartment, filterContrado, rawData, started, ended, outcome>>

\* the handler is called for the request of the page's attempt: the timer is
\* set and fetch(googleScriptUrl) is issued
ServerReceive ==
  /\ pc = "awaitFetch"
  /\ requests < started
  /\ requests' = requests + 1
  /\ spc' = "awaitFetch"
  /\ responses' = <<>>
  /\ upstream' = NoUpstream
  /\ UNCHANGED ClientVars

\* res.json(data)
SendJson(body) ==
  responses' = Append(responses, [status |-> 200, body |-> body, message |-> ""])

\* catch (error) { res.status(500).json({error, message}) }
ServerCatch(message) ==
  /\ responses' =
       Append(responses, [status |-> 500, body |-> NotAnArray, message |-> message])
  /\ spc' = "done"
  /\ UNCHANGED requests

\* the upstream answers 2xx: clearTimeout(timeout), then the body is read
UpstreamOk ==
  /\ spc = "awaitFetch"
  /\ spc' = "awaitJson"
  /\ UNCHANGED <<requests, responses, upstream>>
  /\ UNCHANGED ClientVars

\* the upstream answers with another status: the handler throws
UpstreamNotOk ==
  /\ spc = "awaitFetch"
  /\ upstream' = [outcome |-> "status", body |-> NotAnArray]
  /\ ServerCatch("Google Script returned status")
  /\ UNCHANGED ClientVars

\* fetch() of the handler rejects: the network failed
UpstreamNetworkError ==
  /\ spc = "awaitFetch"
  /\ upstream' = [outcome |-> "network", body |-> NotAnArray]
  /\ ServerCatch("fetch failed")
  /\ UNCHANGED ClientVars

\* the timer of the handler fires while its fetch() is pending:
\* controller.abort()
UpstreamTimeout ==
  /\ spc = "awaitFetch"
  /\ upstream' = [outcome |-> "timeout", body |-> NotAnArray]
  /\ ServerCatch("This operation was aborted")
  /\ UNCHANGED ClientVars

\* response.json() of the handler resolves: res.json(data)
UpstreamJsonOk ==
  /\ spc = "awaitJson"
  /\ \E body \in Bodies(page) :
       /\ upstream' = [outcome |-> "ok", body |-> body]
       /\ SendJson(body)
  /\ spc' = "done"
  /\ UNCHANGED requests
  /\ UNCHANGED ClientVars

\* response.json() of the handler rejects: the upstream body is no JSON
UpstreamJsonError ==
  /\ spc = "awaitJson"
  /\ upstream' = [outcome |-> "syntax", body |-> NotAnArray]
  /\ ServerCatch("Unexpected token")
  /\ UNCHANGED ClientVars

\* the handler has answered the request of the attempt in flight
Responded == requests = started /\ spc = "done" /\ responses # <<>>

\* response.ok: the status is in 200..299
ResponseOk(response) == response.status \in 200..299

\* the page receives the response of the handler with response.ok
ProxyFetchOk ==
  /\ Responded
  /\ ResponseOk(responses[1])
  /\ FetchOk

\* the page receives the response of the handler without response.ok
ProxyFetchNotOk ==
  /\ Responded
  /\ ~ResponseOk(responses[1])
  /\ FetchNotOk

\* the page reads the body of the response of the handler
ProxyJsonOk == Responded /\ JsonResolves({responses[1].body})

(***************************************************************************)
(* String orders and the stable Array.prototype.sort.                      *)
(***************************************************************************)
Lower == <<"a", "b", "c", "d", "e", "f", "g", "h", "i", "j", "k", "l", "m",
           "n", "o", "p", "q", "r", "s", "t", "u", "v", "w", "x", "y", "z">>
Upper == <<"A", "B", "C", "D", "E", "F", "G", "H", "I", "J", "K", "L", "M",
           "N", "O", "P", "Q", "R", "S", "T", "U", "V", "W", "X", "Y", "Z">>

\* the characters of the model in UTF-16 code unit order
CodeOrder == <<" ", "+", "-">> \o Digits \o Upper \o Lower \o <<"é">>

CodeUnit(c) == CHOOSE i \in 1..Len(CodeOrder) : CodeOrder[i] = c

\* a < b in the order of the default sort (code units, a prefix first)
RECURSIVE CodeLess(_, _)
CodeLess(a, b) ==
  IF b = <<>> THEN FALSE
  ELSE IF a = <<>> THEN TRUE
  ELSE IF Head(a) = Head(b) THEN CodeLess(Tail(a), Tail(b))
  ELSE CodeUnit(Head(a)) < CodeUnit(Head(b))

\* Array.from(new Set(values)).sort()
RECURSIVE SortedDistinct(_)
SortedDistinct(S) ==
  IF S = {} THEN <<>>
  ELSE LET least == CHOOSE x \in S : \A y \in S \ {x} : CodeLess(x, y)
       IN <<least>> \o SortedDistinct(S \ {least})

\* Array.prototype.sort with a comparator: stable, so each element in turn goes
\* behind the last element placed that does not compare greater than it
SortWith(seq, Cmp(_, _)) ==
  LET RECURSIVE Insert(_, _, _)
      Insert(placed, x, k) ==
        IF k = 0 \/ Cmp(placed[k], x) <= 0
        THEN SubSeq(placed, 1, k) \o <<x>> \o SubSeq(placed, k + 1, Len(placed))
        ELSE Insert(placed, x, k - 1)
      RECURSIVE Place(_, _)
      Place(placed, i) ==
        IF i > Len(seq) THEN placed
        ELSE Place(Insert(placed, seq[i], Len(placed)), i + 1)
  IN Place(<<>>, 1)

\* the letter of c without its case, and the collation rank of that letter
Fold(c) ==
  IF \E i \in 1..26 : Upper[i] = c
  THEN Lower[CHOOSE i \in 1..26 : Upper[i] = c]
  ELSE c

CollationOrder ==
  <<" ", "-", "+">> \o Digits \o SubSeq(Lower, 1, 5) \o <<"é">> \o SubSeq(Lower, 6, 26)

Primary(c) == CHOOSE i \in 1..Len(CollationOrder) : CollationOrder[i] = Fold(c)

\* the comparison of the letters alone: -1, 0 or 1
RECURSIVE PrimaryCompare(_, _)
PrimaryCompare(a, b) ==
  IF a = <<>> /\ b = <<>> THEN 0
  ELSE IF a = <<>> THEN -1
  ELSE IF b = <<>> THEN 1
  ELSE IF Primary(Head(a)) = Primary(Head(b)) THEN PrimaryCompare(Tail(a), Tail(b))
  ELSE IF Primary(Head(a)) < Primary(Head(b)) THEN -1 ELSE 1

\* the comparison of the case at the first difference: lower case first
RECURSIVE CaseCompare(_, _)
CaseCompare(a, b) ==
  IF a = <<>> \/ b = <<>> THEN 0
  ELSE IF Head(a) = Head(b) THEN CaseCompare(Tail(a), Tail(b))
  ELSE IF Fold(Head(a)) = Head(a) THEN -1 ELSE 1

\* a.localeCompare(b)
LocaleCompare(a, b) ==
  IF PrimaryCompare(a, b) # 0 THEN PrimaryCompare(a, b) ELSE CaseCompare(a, b)

(***************************************************************************)
(* Departeurs and Departures: the values derived from the record set.      *)
(***************************************************************************)
FieldValues(records, field) == {r[field] : r \in Range(records)}

uniqueDepartments == SortedDistinct(FieldValues(data, "department"))

uniqueContrados == SortedDistinct(FieldValues(data, "contado"))

\* a filter is active when it is a non-empty string
Active(f) == f.set /\ f.v # <<>>

PassesFilters(record) ==
  /\ ~(Active(filterDepartment) /\ record.department # filterDepartment.v)
  /\ ~(Active(filterContrado) /\ record.contado # filterContrado.v)

filteredData == SelectSeq(data, PassesFilters)

\* the chart and the category keys computed from the whole record set
ChartRecords_Unfiltered == data

\* the records the chart and the category keys are computed from: the
\* filtered set on Departeurs, the record set on Departures
ChartRecords == IF page = "Departeurs" THEN filteredData ELSE data

\* Array.from(new Set(records.map((r) => r.qz))).sort()
KeysOfRecords(records) == SortedDistinct(FieldValues(records, "qz"))

uniqueQZs == KeysOfRecords(ChartRecords)

\* parseInt(String(record.month)) || 0
MonthNum(record) == ParseIntOrZero(record.month)

\* the months compared as texts in place of numbers
SortCompare_MonthAsText(a, b) ==
  IF JsString(a.month) # JsString(b.month)
  THEN LocaleCompare(JsString(a.month), JsString(b.month))
  ELSE IF a.qz # b.qz THEN LocaleCompare(a.qz, b.qz)
  ELSE IF a.sexo # b.sexo THEN LocaleCompare(a.sexo, b.sexo)
  ELSE LocaleCompare(a.contado, b.contado)

SortCompare(a, b) ==
  IF MonthNum(a) # MonthNum(b) THEN MonthNum(a) - MonthNum(b)
  ELSE IF a.qz # b.qz THEN LocaleCompare(a.qz, b.qz)
  ELSE IF a.sexo # b.sexo THEN LocaleCompare(a.sexo, b.sexo)
  ELSE LocaleCompare(a.contado, b.contado)

sorted == SortWith(filteredData, SortCompare)

\* properties of a chart point, a JavaScript object
GetProp(o, k) == IF k \in DOMAIN o THEN o[k] ELSE Null

SetProp(o, k, v) == IF k \in DOMAIN o THEN [o EXCEPT ![k] = v] ELSE o @@ (k :> v)

Months == 12

MoisLabel(i) == <<"M", "o", "i", "s", " ">> \o NatToStr(i)

\* { month: `Mois ${i}` }, then monthData[qz] = 0 for every category key
RECURSIVE ZeroKeys(_, _, _)
ZeroKeys(point, keys, i) ==
  IF i > Len(keys) THEN point
  ELSE ZeroKeys(SetProp(point, keys[i], Num(0)), keys, i + 1)

\* the point without its zero for every category key
InitPoint_LabelOnly(i, keys) == LabelKey :> Str(MoisLabel(i))

InitPoint(i, keys) == ZeroKeys(LabelKey :> Str(MoisLabel(i)), keys, 1)

\* = nbBaja in place of += nbBaja
PlusBaja_Overwrite(v, nb) == Num(nb)

\* (v || 0) + nbBaja, + being the sum of numbers or the concatenation
PlusBaja(v, nb) ==
  IF ~Truthy(v) THEN Num(nb)
  ELSE IF v.t = "num" THEN Num(v.n + nb)
  ELSE Str(v.s \o NumToStr(nb))

AddRecord(monthMap, record) ==
  IF MonthNum(record) \in DOMAIN monthMap
  THEN [monthMap EXCEPT ![MonthNum(record)] =
          SetProp(@, record.qz, PlusBaja(GetProp(@, record.qz), record.nbBaja))]
  ELSE monthMap

RECURSIVE Accumulate(_, _, _)
Accumulate(monthMap, records, i) ==
  IF i > Len(records) THEN monthMap
  ELSE Accumulate(AddRecord(monthMap, records[i]), records, i + 1)

\* for (i = 1; i <= 12; i++) monthMap.set(i, monthData)
RECURSIVE InitMonths(_, _, _)
InitMonths(monthMap, keys, i) ==
  IF i > Months THEN monthMap
  ELSE InitMonths(Append(monthMap, InitPoint(i, keys)), keys, i + 1)

\* the month map after the two loops of chartData
MonthMapOf(records, keys) == Accumulate(InitMonths(<<>>, keys, 1), records, 1)

\* the entries of the map in insertion order, each point with its key
RECURSIVE Entries(_, _)
Entries(monthMap, i) ==
  IF i > Len(monthMap) THEN <<>>
  ELSE <<[bucket |-> i, point |-> monthMap[i]]>> \o Entries(monthMap, i + 1)

\* String.prototype.replace(pat, ""): the first occurrence is removed
RECURSIVE RemoveFirst(_, _)
RemoveFirst(s, pat) ==
  IF Len(s) < Len(pat) THEN s
  ELSE IF SubSeq(s, 1, Len(pat)) = pat THEN SubSeq(s, Len(pat) + 1, Len(s))
  ELSE <<Head(s)>> \o RemoveFirst(Tail(s), pat)

\* parseInt(String(a.month).replace("Mois ", "")) || 0
PointMonth(point) ==
  ParseIntOrZero(Str(RemoveFirst(JsString(point[LabelKey]), <<"M", "o", "i", "s", " ">>)))

PointCompare(a, b) == PointMonth(a) - PointMonth(b)

\* Array.from(monthMap.values()).sort(...), each point with the month it was
\* created for (bucket), which the source keeps only as the key of the map
ChartOf(records, keys) ==
  LET Cmp(a, b) == PointCompare(a.point, b.point)
  IN SortWith(Entries(MonthMapOf(records, keys), 1), Cmp)

chartEntries == ChartOf(ChartRecords, uniqueQZs)

\* the points of the series, in the order of the sorted array
RECURSIVE Points(_, _)
Points(entries, p) ==
  IF p > Len(entries) THEN <<>>
  ELSE <<entries[p].point>> \o Points(entries, p + 1)

chartData == Points(chartEntries, 1)

(***************************************************************************)
(* Grouped summaries: a Map filled in record order, then sorted by value.  *)
(***************************************************************************)
\* the Map counting the records of a key in place of adding their amounts
MapAdd_CountRecords(entries, key, amount) ==
  IF \E i \in 1..Len(entries) : entries[i].key = key
  THEN [entries EXCEPT ![CHOOSE i \in 1..Len(entries) : entries[i].key = key] =
          [key |-> key, value |-> @.value + 1]]
  ELSE Append(entries, [key |-> key, value |-> 1])

\* map.set(key, (map.get(key) || 0) + amount); a new key goes last
MapAdd(entries, key, amount) ==
  IF \E i \in 1..Len(entries) : entries[i].key = key
  THEN [entries EXCEPT ![CHOOSE i \in 1..Len(entries) : entries[i].key = key] =
          [key |-> key, value |-> @.value + amount]]
  ELSE Append(entries, [key |-> key, value |-> amount])

\* the entries of the Map after the pairs from position i on are added
RECURSIVE MapAddAll(_, _, _)
MapAddAll(entries, pairs, i) ==
  IF i > Len(pairs) THEN entries
  ELSE MapAddAll(MapAdd(entries, pairs[i].key, pairs[i].amount), pairs, i + 1)

\* a[1] - b[1]: ascending
ByValueDesc_Ascending(a, b) == a.value - b.value

\* (a, b) => b[1] - a[1], (a, b) => b.count - a.count
ByValueDesc(a, b) == b.value - a.value

SortedEntries(pairs) == SortWith(MapAddAll(<<>>, pairs, 1), ByValueDesc)

NonDefini == <<"N", "o", "n", " ", "d", "é", "f", "i", "n", "i">>

\* record.department || "Non défini", record.status || "Non défini"
OrNonDefini(x) == IF x # <<>> THEN x ELSE NonDefini

CountPairs(records, field) ==
  [i \in 1..Len(records) |-> [key |-> OrNonDefini(records[i][field]), amount |-> 1]]

BajaPairs(records, field) ==
  [i \in 1..Len(records) |-> [key |-> records[i][field], amount |-> records[i].nbBaja]]

departmentStats == SortedEntries(CountPairs(data, "department"))

statusStats == SortedEntries(CountPairs(data, "status"))

departuresByGender == SortedEntries(BajaPairs(filteredData, "sexo"))

departuresByDepartment == SortedEntries(BajaPairs(filteredData, "department"))

RECURSIVE SumBaja(_, _)
SumBaja(records, i) ==
  IF i > Len(records) THEN 0 ELSE records[i].nbBaja + SumBaja(records, i + 1)

totalDepartures == SumBaja(filteredData, 1)

(***************************************************************************)
(* Departeurs: the nested grouping of the sorted list and the table rows.  *)
(* A Map is the sequence of its entries [key, value] in insertion order.   *)
(***************************************************************************)
\* the position of the entry of `key`, 0 when the Map has none
IndexOfKey(entries, key) ==
  IF \E e \in 1..Len(entries) : entries[e].key = key
  THEN CHOOSE e \in 1..Len(entries) : entries[e].key = key
  ELSE 0

\* if (!map.has(key)) map.set(key, empty)
EnsureKey(entries, key) ==
  IF IndexOfKey(entries, key) = 0
  THEN Append(entries, [key |-> key, value |-> <<>>])
  ELSE entries

\* records.unshift(record)
LeafAdd_Unshift(records, record) == <<record>> \o records

\* qzGroup.get(record.sexo).push(record)
LeafAdd(records, record) == Append(records, record)

\* the body of sorted.forEach: the record goes to the leaf list under
\* String(record.month), record.qz, record.sexo
GroupPut(grouped, record) ==
  LET monthKey == JsString(record.month)
      g == EnsureKey(grouped, monthKey)
      m == IndexOfKey(g, monthKey)
      monthGroup == EnsureKey(g[m].value, record.qz)
      q == IndexOfKey(monthGroup, record.qz)
      qzGroup == EnsureKey(monthGroup[q].value, record.sexo)
      x == IndexOfKey(qzGroup, record.sexo)
      leaf == LeafAdd(qzGroup[x].value, record)
  IN [g EXCEPT ![m].value =
        [monthGroup EXCEPT ![q].value = [qzGroup EXCEPT ![x].value = leaf]]]

RECURSIVE GroupAll(_, _, _)
GroupAll(grouped0, records, i) ==
  IF i > Len(records) THEN grouped0
  ELSE GroupAll(GroupPut(grouped0, records[i]), records, i + 1)

grouped == GroupAll(<<>>, sorted, 1)

\* the records pushed by the nested forEach over the entries of a Map of
\* `depth` levels, in the order they are pushed
RECURSIVE Flatten(_, _, _)
Flatten(entries, depth, e) ==
  IF depth = 0 THEN entries
  ELSE IF e > Len(entries) THEN <<>>
  ELSE Flatten(entries[e].value, depth - 1, 1) \o Flatten(entries, depth, e + 1)

\* the record rows of the table, top to bottom
tableRows == Flatten(grouped, 3, 1)

(***************************************************************************)
(* Departeurs: the "average per QZ" statistic.                             *)
(***************************************************************************)
\* qzPerMonth.get(record.month).add(record.qz), the Set created when missing
QzPerMonthAdd(entries, record) ==
  LET g == IF IndexOfKey(entries, record.month) = 0
           THEN Append(entries, [key |-> record.month, value |-> {}])
           ELSE entries
      m == IndexOfKey(g, record.month)
  IN [g EXCEPT ![m].value = @ \cup {record.qz}]

RECURSIVE QzPerMonthOf(_, _, _)
QzPerMonthOf(entries, records, i) ==
  IF i > Len(records) THEN entries
  ELSE QzPerMonthOf(QzPerMonthAdd(entries, records[i]), records, i + 1)

qzPerMonth == QzPerMonthOf(<<>>, filteredData, 1)

RECURSIVE SumSizes(_, _)
SumSizes(entries, e) ==
  IF e > Len(entries) THEN 0
  ELSE Cardinality(entries[e].value) + SumSizes(entries, e + 1)

\* the number of distinct qz of the filtered records
totalQZCount_DistinctQz == Cardinality(FieldValues(filteredData, "qz"))

\* qzPerMonth.forEach((qzSet) => { totalQZCount += qzSet.size })
totalQZCount == SumSizes(qzPerMonth, 1)

\* Math.round(n / d) for d > 0: the nearest integer, a half going up
MathRound(n, d) == (2 * n + d) \div (2 * d)

avgPerQZ ==
  IF totalQZCount > 0 THEN MathRound(totalDepartures, totalQZCount) ELSE 0

(***************************************************************************)
(* The notices of the page.                                                *)
(***************************************************************************)
\* {error && <Alert variant="destructive">}
ErrorNotice == error # NoError

\* loading ? spinner : data.length === 0 ? <Alert>no data</Alert> : content
NoDataNotice == ~loading /\ Len(data) = 0

(***************************************************************************)
(* The filter controls of Departeurs, rendered once records are shown.     *)
(***************************************************************************)
ControlsShown == page = "Departeurs" /\ ~loading /\ data # <<>>

\* onChange: e.target.value ? e.target.value : null
Selected(value) == IF value # <<>> THEN Filter(value) ELSE NoFilter

\* the department filter as a dependency of the effect: a change schedules it
SetFilterDepartment_Refetch ==
  /\ ControlsShown
  /\ \E value \in {<<>>} \cup Range(uniqueDepartments) :
       filterDepartment' = Selected(value)
  /\ pc' = "effect"
  /\ UNCHANGED <<page, data, loading, error, retryKey, filterContrado, rawData>>
  /\ UNCHANGED attempts
  /\ UNCHANGED server

\* the department select: setFilterDepartment(...)
SetFilterDepartment ==
  /\ ControlsShown
  /\ \E value \in {<<>>} \cup Range(uniqueDepartments) :
       filterDepartment' = Selected(value)
  /\ UNCHANGED <<page, pc, data, loading, error, retryKey, filterContrado, rawData>>
  /\ UNCHANGED attempts
  /\ UNCHANGED server

SetFilterContrado ==
  /\ ControlsShown
  /\ \E value \in {<<>>} \cup Range(uniqueContrados) :
       filterContrado' = Selected(value)
  /\ UNCHANGED <<page, pc, data, loading, error, retryKey, filterDepartment, rawData>>
  /\ UNCHANGED attempts
  /\ UNCHANGED server

\* the reset button, rendered while a filter is set
ResetFilters ==
  /\ ControlsShown
  /\ Active(filterDepartment) \/ Active(filterContrado)
  /\ filterDepartment' = NoFilter
  /\ filterContrado' = NoFilter
  /\ UNCHANGED <<page, pc, data, loading, error, retryKey, rawData>>
  /\ UNCHANGED attempts
  /\ UNCHANGED server

Next ==
  \/ StartFetch
  \/ FetchOk
  \/ FetchNotOk
  \/ FetchNetworkError
  \/ FetchTimeout
  \/ JsonOk
  \/ JsonError
  \/ Retry
  \/ SetFilterDepartment
  \/ SetFilterContrado
  \/ ResetFilters

Spec == Init /\ [][Next]_vars

\* the page with the scheduling of its runtime: a scheduled effect runs, and the
\* timer of a pending fetch() fires unless it is cleared first.  When the
\* network answers is not up to the page.
SpecLive == Init /\ [][Next]_vars /\ WF_vars(StartFetch) /\ WF_vars(FetchTimeout)

\* Departeurs behind the proxy handler of its endpoint.  The server calls the
\* handler for a request it received, and the timer of the handler fires
\* unless it is cleared first; when the upstream answers is up to neither.
InitProxy == Init /\ page = "Departeurs"

NextProxy ==
  \/ StartFetch
  \/ ServerReceive
  \/ UpstreamOk
  \/ UpstreamNotOk
  \/ UpstreamNetworkError
  \/ UpstreamTimeout
  \/ UpstreamJsonOk
  \/ UpstreamJsonError
  \/ ProxyFetchOk
  \/ ProxyFetchNotOk
  \/ ProxyJsonOk
  \/ Retry

SpecProxy ==
  /\ InitProxy /\ [][NextProxy]_vars
  /\ WF_vars(StartFetch) /\ WF_vars(ServerReceive) /\ WF_vars(UpstreamTimeout)

\* Departeurs and Departures with a fetch that delivers complete departure rows
InitChart == Init /\ page # "Effectif"

NextChart ==
  \/ StartFetch
  \/ FetchOk
  \/ JsonOkChart
  \/ SetFilterDepartment
  \/ SetFilterContrado
  \/ ResetFilters

SpecChart == InitChart /\ [][NextChart]_vars

\* Departeurs and Departures with a fetch that delivers every body of the
\* departure rows, short rows and elements that are no rows included
InitDecode == Init /\ page # "Effectif"

NextDecode ==
  \/ StartFetch
  \/ FetchOk
  \/ JsonOk
  \/ SetFilterDepartment
  \/ SetFilterContrado
  \/ ResetFilters

SpecDecode == InitDecode /\ [][NextDecode]_vars

\* Departeurs with a fetch that delivers rows for the sorted table
InitTable == Init /\ page = "Departeurs"

NextTable ==
  \/ StartFetch
  \/ FetchOk
  \/ JsonOkTable
  \/ SetFilterDepartment
  \/ SetFilterContrado
  \/ ResetFilters

SpecTable == InitTable /\ [][NextTable]_vars

(***************************************************************************)
(* Vocabulary of the properties.                                           *)
(***************************************************************************)
\* the last fetch delivered a body, which rawData holds and data was set from
Delivered == pc = "idle" /\ error = NoError

\* the rows after the header of the delivered body
DataRows ==
  IF rawData.isArray /\ Len(rawData.rows) > 1 THEN Tail(rawData.rows) ELSE <<>>

\* the trimmed string form of a cell; a null or missing cell has the empty one
CellText(c) == IF c.t = "null" THEN <<>> ELSE Trim(JsString(c))

RequiredIndexes == IF page = "Effectif" THEN {0, 1} ELSE {0, 1, 4}

\* the trimmed text a field takes from a cell, an empty cell giving ""
FieldText(c) == IF Truthy(c) THEN Trim(JsString(c)) ELSE <<>>

\* every required field of the row is non-empty after trimming
RequiredPresent(row) ==
  row.arr /\ \A i \in RequiredIndexes : FieldText(At(row.cells, i)) # <<>>

\* every required cell of the row has a non-empty trimmed string form
RequiredCellsPresent(row) ==
  row.arr /\ \A i \in RequiredIndexes : CellText(At(row.cells, i)) # <<>>

\* the record is the record of the row, as far as its required fields tell
RecordOf(record, row) ==
  IF page = "Effectif"
  THEN /\ record.id = CellText(At(row.cells, 0))
       /\ record.name = CellText(At(row.cells, 1))
  ELSE /\ record.qz = CellText(At(row.cells, 0))
       /\ Trim(JsString(record.month)) = CellText(At(row.cells, 1))
       /\ record.department = CellText(At(row.cells, 4))

\* the length the decoder of the page itself asks of a row
LongEnough(row) ==
  row.arr /\ Len(row.cells) >=
               (IF page = "Effectif" THEN MinColsEffectif ELSE MinColsDeparteurs)

Decodable(row) == LongEnough(row) /\ RequiredPresent(row)

\* C1: the record set is, in row order, the rows after the header whose required
\* fields (Effectif: id, name; Departeurs, Departures: qz, month, department)
\* are all non-empty after trimming; a row with a required field empty or
\* whitespace-only yields no record.  (Rows shorter than the decoder asks are
\* left to C2.)
C1_RecordsAreRowsWithRequiredFields ==
  Delivered =>
    LET expected == SelectSeq(DataRows, Decodable)
    IN /\ Len(data) = Len(expected)
       /\ \A i \in 1..Len(data) : RecordOf(data[i], expected[i])

\* the highest cell index the decoder of the page reads
HighestIndexRead == IF page = "Effectif" THEN 13 ELSE 5

ShortRow(row) == Len(row.cells) < HighestIndexRead + 1

\* C2: a row shorter than the highest index read plus one (Effectif 14 cells,
\* Departeurs and Departures 6) yields no record, so the records are at most as
\* many as the rows that are long enough.
C2_ShortRowsYieldNoRecord ==
  Delivered =>
    Len(data) <= Cardinality({i \in 1..Len(DataRows) : ~ShortRow(DataRows[i])})

Unpadded(x) == x = <<>> \/ (~IsWs(x[1]) /\ ~IsWs(x[Len(x)]))

\* C3: no string field of a record has leading or trailing whitespace
\* (Effectif: id, name, department, position, status; Departeurs: qz, month,
\* sexo, contado, department).
C3_StringFieldsAreTrimmed ==
  \A i \in 1..Len(data) :
    IF page = "Effectif"
    THEN \A f \in {"id", "name", "department", "position", "status"} :
           Unpadded(data[i][f])
    ELSE /\ \A f \in {"qz", "sexo", "contado", "department"} : Unpadded(data[i][f])
         /\ data[i].month.t = "str" => Unpadded(data[i].month.s)

\* C4: a string field is the trimmed string form of its cell, empty only for
\* an empty or missing cell, so a row whose id (or qz) cell is the number 0 has
\* a record with id "0": every row of the length the decoder asks, with its
\* required fields present, has a record that carries their trimmed string forms.
C4_FieldsAreTrimmedStringForms ==
  Delivered =>
    \A i \in 1..Len(DataRows) :
      (LongEnough(DataRows[i]) /\ RequiredCellsPresent(DataRows[i]))
        => \E j \in 1..Len(data) : RecordOf(data[j], DataRows[i])

\* the records of the delivered body are those of the rows the decoder kept
KeptByDecoder(row) ==
  IF page = "Effectif"
  THEN ~RowRejectedEffectif(row) /\ KeepEffectif(DecodeEffectifRow(row))
  ELSE ~RowRejectedDeparteurs(row) /\ KeepDeparteurs(DecodeDeparteursRow(row))

KeptRows == SelectSeq(DataRows, KeptByDecoder)

RECURSIVE Pow10(_)
Pow10(k) == IF k = 0 THEN 1 ELSE 10 * Pow10(k - 1)

\* the integer a string starts with, read off its shape: w blanks, an optional
\* sign, then d > 0 digits that end at the first character that is no digit
LeadingInteger(s) ==
  LET w == CHOOSE k \in 0..Len(s) :
             /\ \A i \in 1..k : s[i] = " "
             /\ k = Len(s) \/ s[k + 1] # " "
      sg == IF w < Len(s) /\ s[w + 1] \in {"+", "-"} THEN 1 ELSE 0
      at == w + sg
      d == CHOOSE k \in 0..(Len(s) - at) :
             /\ \A i \in 1..k : IsDigit(s[at + i])
             /\ at + k = Len(s) \/ ~IsDigit(s[at + k + 1])
      digit == [i \in 1..d |-> DigitVal(s[at + i]) * Pow10(d - i)]
      RECURSIVE Total(_)
      Total(i) == IF i = 0 THEN 0 ELSE digit[i] + Total(i - 1)
  IN [parsable |-> d > 0,
      value |-> IF sg = 1 /\ s[w + 1] = "-" THEN 0 - Total(d) ELSE Total(d)]

\* what cell 5 of a row stands for: 0 when absent or not an integer
BajaOfRow(row) ==
  LET c == At(row.cells, 5)
  IN CASE c.t = "num" -> c.n
       [] c.t = "str" /\ LeadingInteger(c.s).parsable -> LeadingInteger(c.s).value
       [] OTHER -> 0

RECURSIVE SumOver(_, _)
SumOver(f, S) ==
  IF S = {} THEN 0
  ELSE LET x == CHOOSE y \in S : TRUE IN f[x] + SumOver(f, S \ {x})

\* the record satisfies every filter that is set
Matches(record) ==
  /\ filterDepartment # NoFilter => record.department = filterDepartment.v
  /\ filterContrado # NoFilter => record.contado = filterContrado.v

\* the month a record's month value stands for, 0 when it is no integer
MonthOfRecord(record) ==
  CASE record.month.t = "num" -> record.month.n
    [] record.month.t = "str" /\ LeadingInteger(record.month.s).parsable ->
         LeadingInteger(record.month.s).value
    [] OTHER -> 0

\* the months the records stand for, in the order of the records
RECURSIVE MonthsOfRecords(_, _)
MonthsOfRecords(records, i) ==
  IF i > Len(records) THEN <<>>
  ELSE <<MonthOfRecord(records[i])>> \o MonthsOfRecords(records, i + 1)

\* the sum of nbBaja over the records of `records` at the positions in S
BajaOver(records, S) == SumOver([i \in 1..Len(records) |-> records[i].nbBaja], S)

\* the list is made from the records of `records` at the positions in S, its
\* keys being their values of `field`, each with the sum of its nbBaja
SumsBy(list, records, S, field) ==
  /\ {list[e].key : e \in 1..Len(list)} = {records[i][field] : i \in S}
  /\ \A e \in 1..Len(list) :
       list[e].value = BajaOver(records, {i \in S : records[i][field] = list[e].key})

\* C6: on Departeurs with a department or contract filter set, the category
\* keys, the chart series, the summary statistics and the sorted table are
\* computed from exactly the records that satisfy every filter set.
C6_ConsumersReadFilteredSet ==
  (page = "Departeurs" /\ (filterDepartment # NoFilter \/ filterContrado # NoFilter)) =>
    LET M == {i \in 1..Len(data) : Matches(data[i])}
        ce == chartEntries
        st == sorted
        mo == MonthsOfRecords(data, 1)
    IN /\ Range(uniqueQZs) = {data[i].qz : i \in M}
       /\ \A p \in 1..Len(ce) : \A k \in {data[i].qz : i \in M} :
            GetProp(ce[p].point, k) =
              Num(BajaOver(data, {i \in M : data[i].qz = k /\ mo[i] = ce[p].bucket}))
       /\ totalDepartures = BajaOver(data, M)
       /\ SumsBy(departuresByGender, data, M, "sexo")
       /\ SumsBy(departuresByDepartment, data, M, "department")
       /\ Len(st) = Cardinality(M)
       /\ \A r \in Range(data) \cup Range(st) :
            Cardinality({i \in 1..Len(st) : st[i] = r})
              = Cardinality({i \in M : data[i] = r})

\* a filter is set that some record with departures fails and another passes
C6_Witness ==
  /\ page = "Departeurs" /\ filterDepartment # NoFilter
  /\ \E i \in 1..Len(data) : ~Matches(data[i]) /\ data[i].nbBaja > 0
                               /\ MonthOfRecord(data[i]) \in 1..12
  /\ \E i \in 1..Len(data) : Matches(data[i]) /\ data[i].nbBaja > 0
                               /\ MonthOfRecord(data[i]) \in 1..12

\* the category keys observed in the records the chart is computed from
ObservedKeys == {r.qz : r \in Range(ChartRecords)}

\* C7: the chart series has 12 points whatever the record set, and every point
\* holds a number for every category key observed, 0 where no record
\* contributes to the point.
C7_ChartIsDense ==
  page # "Effectif" =>
    LET ce == chartEntries
        rs == ChartRecords
        mo == MonthsOfRecords(rs, 1)
    IN /\ Len(ce) = 12
       /\ Len(chartData) = 12
       /\ \A p \in 1..Len(ce) : \A k \in ObservedKeys :
            /\ k \in DOMAIN ce[p].point
            /\ ce[p].point[k].t = "num"
            /\ (~\E i \in 1..Len(rs) : rs[i].qz = k /\ mo[i] = ce[p].bucket)
                 => ce[p].point[k].n = 0

\* two category keys, and a point to which one contributes and the other not
C7_Witness ==
  /\ Delivered /\ page # "Effectif"
  /\ \E p \in 1..12 : \E k1, k2 \in ObservedKeys :
       /\ k1 # k2
       /\ chartData[p][k1].n > 0
       /\ chartData[p][k2] = Num(0)

\* C8: for every month n of 1..12 and category key k, the value of k in the
\* bucket of month n is the sum of nbBaja over the records with qz k whose
\* month parses to n; records whose month parses to 0, does not parse or lies
\* outside 1..12 are in no bucket.
C8_BucketValuesAreSums ==
  page # "Effectif" =>
    LET ce == chartEntries
        rs == ChartRecords
        mo == MonthsOfRecords(rs, 1)
    IN /\ {ce[p].bucket : p \in 1..Len(ce)} = 1..12
       /\ \A p \in 1..Len(ce) : \A k \in ObservedKeys :
            GetProp(ce[p].point, k) =
              Num(BajaOver(rs, {i \in 1..Len(rs) : rs[i].qz = k /\ mo[i] = ce[p].bucket}))

\* a bucket that sums two records, beside records with departures whose month
\* is blank and whose month is 13
C8_Witness ==
  /\ Delivered /\ page # "Effectif" /\ Len(data) >= 3
  /\ \E i, j \in 1..Len(data) :
       /\ i # j /\ data[i].qz = data[j].qz
       /\ MonthOfRecord(data[i]) = MonthOfRecord(data[j])
       /\ MonthOfRecord(data[i]) \in 1..12
       /\ data[i].nbBaja > 0 /\ data[j].nbBaja > 0
  /\ \E i \in 1..Len(data) : data[i].nbBaja > 0 /\ MonthOfRecord(data[i]) \notin 1..12

\* C9: whatever the category keys are (a qz that is the name of the label field
\* of the points included), the points come in month order 1..12 and the n-th
\* point carries the label of month n.
C9_PointsInMonthOrderWithLabels ==
  page # "Effectif" =>
    LET ce == chartEntries
    IN \A p \in 1..Len(ce) :
         /\ ce[p].bucket = p
         /\ ce[p].point[LabelKey] = Str(MoisLabel(p))

\* the position at which the key is first seen in the sequence of keys
FirstSeen(keys, key) ==
  CHOOSE i \in 1..Len(keys) : keys[i] = key /\ \A j \in 1..(i - 1) : keys[j] # key

\* the list has one entry per key seen, in descending order of value, and
\* entries of equal value in the order their keys are first seen
DescendingStable(list, keys) ==
  /\ Len(list) = Cardinality(Range(keys))
  /\ {list[e].key : e \in 1..Len(list)} = Range(keys)
  /\ \A i, j \in 1..Len(list) :
       i < j =>
         /\ list[i].value >= list[j].value
         /\ list[i].value = list[j].value
              => FirstSeen(keys, list[i].key) < FirstSeen(keys, list[j].key)

KeysOf(records, field) == [i \in 1..Len(records) |-> records[i][field]]

LabelledKeysOf(records, field) ==
  [i \in 1..Len(records) |->
     IF records[i][field] = <<>> THEN NonDefini ELSE records[i][field]]

\* C10: every grouped summary list (Effectif departmentStats and statusStats,
\* Departeurs departuresByGender and departuresByDepartment) is in descending
\* order of value, keys of equal value in the order they are first seen.
C10_SummariesDescendingStable ==
  /\ page = "Effectif" =>
       /\ DescendingStable(departmentStats, LabelledKeysOf(data, "department"))
       /\ DescendingStable(statusStats, LabelledKeysOf(data, "status"))
  /\ page = "Departeurs" =>
       /\ DescendingStable(departuresByGender, KeysOf(filteredData, "sexo"))
       /\ DescendingStable(departuresByDepartment, KeysOf(filteredData, "department"))

\* a list whose first entry was seen after its second, the second and third
\* being of equal value
C10_Witness ==
  /\ page = "Departeurs" /\ Delivered
  /\ LET list == departuresByGender
         keys == KeysOf(filteredData, "sexo")
     IN /\ Len(list) = 3
        /\ FirstSeen(keys, list[1].key) > FirstSeen(keys, list[2].key)
        /\ list[1].value > list[2].value
        /\ list[2].value = list[3].value

\* the records of the record set that satisfy every filter set, in its order
MatchingRecords == SelectSeq(data, Matches)

\* the pairs (month value, qz) that occur in the records
MonthQzPairs(records) == {<<r.month, r.qz>> : r \in Range(records)}

\* k is n / d rounded to the nearest integer, a half going up
IsRounded(k, n, d) == (2 * k - 1) * d <= 2 * n /\ 2 * n < (2 * k + 1) * d

\* C11: the "average per QZ" of Departeurs is round(totalDepartures / D), D
\* being the number of distinct qz summed over the distinct months of the
\* filtered records (a qz counts once for each month it occurs in), and it
\* is 0 when D is 0.
C11_AvgPerQzIsRoundedQuotient ==
  (page = "Departeurs" /\ Delivered) =>
    LET F == MatchingRecords
        D == Cardinality(MonthQzPairs(F))
        total == BajaOver(F, 1..Len(F))
    IN IF D = 0 THEN avgPerQZ = 0 ELSE IsRounded(avgPerQZ, total, D)

\* a qz occurs in two months, and the quotient is no integer
C11_Witness ==
  /\ page = "Departeurs" /\ Delivered
  /\ LET F == MatchingRecords
         D == Cardinality(MonthQzPairs(F))
     IN /\ D > Cardinality(FieldValues(F, "qz"))
        /\ BajaOver(F, 1..Len(F)) % D # 0
        /\ avgPerQZ # 0

\* the two sequences hold the same records, each as many times
SameRecords(s, t) ==
  /\ Len(s) = Len(t)
  /\ \A r \in Range(s) \cup Range(t) :
       Cardinality({i \in 1..Len(s) : s[i] = r}) = Cardinality({i \in 1..Len(t) : t[i] = r})

\* x comes before y in the order of the strings
Before(x, y) == LocaleCompare(x, y) < 0

\* a is not behind b in the order by month number, then qz, then sexo, then
\* contado
NotBehind(a, b) ==
  \/ MonthOfRecord(a) < MonthOfRecord(b)
  \/ /\ MonthOfRecord(a) = MonthOfRecord(b)
     /\ \/ Before(a.qz, b.qz)
        \/ /\ a.qz = b.qz
           /\ \/ Before(a.sexo, b.sexo)
              \/ a.sexo = b.sexo /\ ~Before(b.contado, a.contado)

\* C12: the sorted list of Departeurs is a permutation of the filtered
\* records, and each record of it is not behind its successor in the order
\* by parsed month, then qz, then sexo, then contado.
C12_SortedIsOrderedPermutation ==
  (page = "Departeurs" /\ Delivered) =>
    LET st == sorted
    IN /\ SameRecords(st, MatchingRecords)
       /\ \A i \in 1..(Len(st) - 1) : NotBehind(st[i], st[i + 1])

\* the sort moved records: month 2 stands before month 13, and two records
\* of one month number are ordered by their qz
C12_Witness ==
  /\ page = "Departeurs" /\ Delivered
  /\ LET st == sorted
     IN /\ st # MatchingRecords
        /\ \E i \in 1..(Len(st) - 1) :
             MonthOfRecord(st[i]) = 2 /\ MonthOfRecord(st[i + 1]) = 13
        /\ \E i \in 1..(Len(st) - 1) :
             MonthOfRecord(st[i]) = MonthOfRecord(st[i + 1]) /\ st[i].qz # st[i + 1].qz

\* C13: the record rows of the Departeurs table, read from the nested
\* grouping level by level in stored order, are the sorted list.
C13_FlattenedGroupingIsSortedList ==
  (page = "Departeurs" /\ Delivered) => tableRows = sorted

\* the leaf lists of the grouping, each with the keys it is stored under
Leaves ==
  LET g == grouped
  IN {[month |-> g[m].key, qz |-> g[m].value[q].key, sexo |-> g[m].value[q].value[x].key,
       records |-> g[m].value[q].value[x].value, at |-> <<m, q, x>>] :
        <<m, q, x>> \in {<<m, q, x>> \in (1..Len(g)) \X (1..Len(sorted)) \X (1..Len(sorted)) :
                           /\ q <= Len(g[m].value)
                           /\ x <= Len(g[m].value[q].value)}}

\* the record is filed under the keys of the leaf
FiledUnder(record, leaf) ==
  /\ JsString(record.month) = leaf.month
  /\ record.qz = leaf.qz
  /\ record.sexo = leaf.sexo

\* C14: in the nested grouping of Departeurs no two leaf lists have the same
\* keys, every sorted record has the leaf list of its month text, qz and
\* sexo, and each leaf list holds exactly the records filed under its keys,
\* in the order of the sorted list.
C14_LeavesPartitionSortedList ==
  (page = "Departeurs" /\ Delivered) =>
    LET st == sorted
        leaves == Leaves
    IN /\ \A a, b \in leaves :
            (a.month = b.month /\ a.qz = b.qz /\ a.sexo = b.sexo) => a.at = b.at
       /\ \A i \in 1..Len(st) : \E leaf \in leaves : FiledUnder(st[i], leaf)
       /\ \A leaf \in leaves :
            leaf.records = SelectSeq(st, LAMBDA r : FiledUnder(r, leaf))

\* a leaf list holds two different records, and two month texts of one number
\* have their own groups
C14_Witness ==
  /\ page = "Departeurs" /\ Delivered
  /\ \E leaf \in Leaves : Len(leaf.records) > 1 /\ leaf.records[1] # leaf.records[2]
  /\ \E a, b \in Leaves : a.month # b.month /\ DigitsValue(Trim(a.month), 0) = 2
                               /\ DigitsValue(Trim(b.month), 0) = 2

\* a fetch attempt ends as a failure in this step
FailureStep == ended' = ended + 1 /\ outcome' = "failed"

\* C15: a step in which a fetch attempt fails (timeout, non-2xx status, body
\* that is no JSON, network error) leaves the error message set and the
\* record set empty, and in every state a set error goes with an empty
\* record set.
C15_FailureSetsErrorAndEmptiesData ==
  /\ [](error # NoError => data = <<>>)
  /\ [][FailureStep => (error' # NoError /\ data' = <<>>)]_vars

\* an attempt started by a retry has failed on a body that is no JSON
C15_Witness ==
  /\ pc = "idle" /\ outcome = "failed" /\ retryKey > 0 /\ ended = 2
  /\ error = "Unexpected token"

\* the body of the last attempt, which succeeded, is no table of a header and rows
EmptyBodyDelivered ==
  /\ pc = "idle" /\ outcome = "ok"
  /\ ~(rawData.isArray /\ Len(rawData.rows) > 1)

\* C16: after a 2xx response whose body is no array, or an array of at most
\* one element, the record set is empty and the error is null.
C16_EmptyBodyIsNoDataNotFailure ==
  EmptyBodyDelivered => (data = <<>> /\ error = NoError)

\* a retry after a failure was answered with an array of the header alone
C16_Witness ==
  /\ EmptyBodyDelivered /\ retryKey > 0
  /\ rawData.isArray /\ Len(rawData.rows) = 1

\* C17: the "no data" notice is shown only when the last fetch attempt
\* succeeded with an empty record set, and after a failed attempt the error
\* notice is shown and the "no data" notice is not.
C17_NoDataNoticeApartFromError ==
  /\ NoDataNotice => (outcome = "ok" /\ error = NoError)
  /\ (pc = "idle" /\ outcome = "failed") => (ErrorNotice /\ ~NoDataNotice)

\* the fetch attempts started and not ended
InFlight == started - ended

\* C18: at most one fetch attempt of the page is in flight, the retry token
\* never decreases, and an attempt starts only when none is in flight.
C18_AtMostOneAttemptInFlight ==
  /\ [](InFlight \in {0, 1})
  /\ [][retryKey' >= retryKey]_vars
  /\ [][started' > started => InFlight = 0]_vars

\* the attempt started by a retry is in flight
C18_Witness == retryKey > 0 /\ InFlight = 1 /\ started = 2

\* C19: every fetch attempt ends, in success or in failure, and the loading
\* flag becomes false.
C19_EveryAttemptEnds ==
  /\ (InFlight > 0) ~> (InFlight = 0)
  /\ loading ~> ~loading

\* C20: after a failed attempt the retry button is shown; a click on it
\* increments the retry token by one and schedules the effect; the effect
\* starts one attempt for each value of the token, with the error cleared and
\* the loading flag set.
C20_RetryStartsOneCleanAttempt ==
  /\ []((pc = "idle" /\ outcome = "failed") => RetryShown)
  /\ [](started \in {retryKey, retryKey + 1})
  /\ [][retryKey' # retryKey =>
          (retryKey' = retryKey + 1 /\ pc' = "effect" /\ started' = started)]_vars
  /\ [][started' # started =>
          (started' = retryKey + 1 /\ error' = NoError /\ loading' = TRUE)]_vars

\* the attempt of the first retry has started
C20_Witness ==
  /\ retryKey = 1 /\ started = 2 /\ pc = "awaitFetch"
  /\ error = NoError /\ loading

\* the handler has ended for the last request
HandlerDone == spc = "done"

\* what the handler owes the request, given what the upstream answered
ResponseMatchesUpstream ==
  IF upstream.outcome = "ok"
  THEN responses = <<[status |-> 200, body |-> upstream.body, message |-> ""]>>
  ELSE /\ Len(responses) = 1
       /\ responses[1].status = 500
       /\ responses[1].message # ""

\* C21: the proxy handler sends exactly one response to each request: the
\* upstream body unchanged with status 200 when the upstream answered 2xx
\* with a JSON body, else a status-500 body with an error message, which
\* the page takes as a failed attempt.
C21_OneResponsePerRequest ==
  /\ [](Len(responses) <= 1)
  /\ [](HandlerDone => ResponseMatchesUpstream)
  /\ []((ended = requests /\ requests > 0 /\ responses # <<>>
          /\ responses[1].status = 500) => outcome = "failed")
  /\ (spc = "awaitFetch" \/ spc = "awaitJson") ~> (Len(responses) = 1)

\* the part of C21 that a finite run could refute
C21_Safety ==
  /\ Len(responses) <= 1
  /\ HandlerDone => ResponseMatchesUpstream
  /\ (ended = requests /\ requests > 0 /\ responses # <<>>
       /\ responses[1].status = 500) => outcome = "failed"

\* C22: while the loading flag is true the record set is empty: an attempt
\* starts at mount or by a retry from the error state, where the records
\* were reset, so no records of an earlier fetch are held during a later one.
C22_LoadingHoldsNoRecords == loading => data = <<>>

\* a retried attempt is in flight, after an attempt that failed
C22_Witness == loading /\ retryKey > 0 /\ pc = "awaitJson" /\ started = 2

\* a step that sets, changes or resets a filter
FilterStep == filterDepartment' # filterDepartment \/ filterContrado' # filterContrado

\* C23: on Departeurs a step that sets, changes or resets the department or
\* the contract filter leaves the record set, the error, the loading flag and
\* the retry token as they were and starts or schedules no fetch; the derived
\* values follow as functions of the unchanged records and the new filters.
C23_FiltersLeaveFetchStateAlone ==
  [][FilterStep =>
       /\ page = "Departeurs"
       /\ data' = data /\ error' = error /\ loading' = loading
       /\ retryKey' = retryKey
       /\ pc' = pc /\ started' = started /\ ended' = ended]_vars

\* a filter was set after the only fetch, and it hides some of the records
C23_Witness ==
  /\ Active(filterDepartment) \/ Active(filterContrado)
  /\ filteredData # data
  /\ filteredData # <<>>
  /\ pc = "idle" /\ started = 1 /\ ended = 1 /\ ~loading

\* the sum of the values of a summary list
RECURSIVE SumValues(_, _)
SumValues(list, e) ==
  IF e > Len(list) THEN 0 ELSE list[e].value + SumValues(list, e + 1)

\* the sum of the values one point holds for the category keys
RECURSIVE SumPoint(_, _, _)
SumPoint(point, keys, k) ==
  IF k > Len(keys) THEN 0
  ELSE GetProp(point, keys[k]).n + SumPoint(point, keys, k + 1)

\* the sum of the values of all buckets of the series
RECURSIVE SumBuckets(_, _, _)
SumBuckets(points, keys, p) ==
  IF p > Len(points) THEN 0
  ELSE SumPoint(points[p], keys, 1) + SumBuckets(points, keys, p + 1)

\* the positions of the records whose month stands for no month of 1..12
OutOfYear(records) ==
  {i \in 1..Len(records) : MonthsOfRecords(records, 1)[i] \notin 1..Months}

\* C24: on Departeurs, for every filtered record set, totalDepartures is the
\* sum of the departuresByGender values and the sum of the
\* departuresByDepartment values, and the values of all chart buckets add up
\* to totalDepartures less the nbBaja of the records whose month parses to
\* no month of 1..12.
C24_TotalsAgree ==
  page = "Departeurs" =>
    /\ totalDepartures = SumValues(departuresByGender, 1)
    /\ totalDepartures = SumValues(departuresByDepartment, 1)
    /\ SumBuckets(chartData, uniqueQZs, 1) =
         totalDepartures - BajaOver(filteredData, OutOfYear(filteredData))

\* a filtered set with two genders and two departments, with records inside
\* and outside the twelve months that carry departures
C24_Witness ==
  /\ Delivered /\ page = "Departeurs"
  /\ Len(departuresByGender) = 2 /\ Len(departuresByDepartment) = 2
  /\ \E i \in OutOfYear(filteredData) : filteredData[i].nbBaja > 0
  /\ \E i \in 1..Len(filteredData) :
       i \notin OutOfYear(filteredData) /\ filteredData[i].nbBaja > 1
  /\ totalDepartures > SumBuckets(chartData, uniqueQZs, 1)
  /\ SumBuckets(chartData, uniqueQZs, 1) > 0

\* the series a page draws from the records its chart is computed from
SeriesOf(records) == Points(ChartOf(records, KeysOfRecords(records)), 1)

NoFilterActive == ~Active(filterDepartment) /\ ~Active(filterContrado)

====
